---- MODULE Spec2Model ----
(***************************************************************************)
(* Model of the Polymarket paper trading engine (PolymarketTraderV2,       *)
(* src/polymarket_trader.py) with the SmartContrarian signal provider      *)
(* (src/polymarket_contrarian_v3.py).                                      *)
(*                                                                         *)
(* Units.  Prices and money are in cents (0.70 is 70, 10.00 dollars is     *)
(* 1000), rounded down.  The win rate is a fixed-point number with Scale   *)
(* units to 1 (0.5 is 5000).  Time is in hours since midnight of day 0;    *)
(* datetime.now() reads the variable now, and every read within one        *)
(* operation gives the same hour.  A Python Optional is a sequence of      *)
(* length 0 (None) or 1.                                                   *)
(*                                                                         *)
(* Stores.  Every method that changes self.trades,                         *)
(* self.circuit_breaker_state or self.market_history calls save_trades,    *)
(* save_circuit_breaker or save_market_history before it returns, and the  *)
(* save writes the whole field.  With one process the file and the field   *)
(* are equal after every operation, and the variables trades,              *)
(* circuit_breaker_state and market_history stand for both.                *)
(***************************************************************************)
EXTENDS Integers, Sequences, FiniteSets, TLC

VARIABLES trades, circuit_breaker_state, market_history, win_rate, alerts,
          now, pc, markets, api, all_ops, last, recorded, runs, notifier

vars == <<trades, circuit_breaker_state, market_history, win_rate, alerts,
          now, pc, markets, api, all_ops, last, recorded, runs, notifier>>

(***************************************************************************)
(* Bounds of the model.                                                    *)
(***************************************************************************)
MaxTrades == 4
MaxHistory == 5
MaxTicks == 1
MaxRecorded == 12
MaxRaceTrades == 2

(***************************************************************************)
(* Optional values.                                                        *)
(***************************************************************************)
None == <<>>
Some(v) == <<v>>
Val(o) == o[1]

\* fixed-point unit of the win rate: hundredths of a percent
Scale == 100 * 100

(***************************************************************************)
(* PolymarketTraderV2.__init__: configuration.                             *)
(***************************************************************************)
base_position_size == 1000
max_position_size == 10000
min_position_size == 500
late_entry_buy_threshold == 35
arbitrage_min_spread == 20
circuit_breaker_threshold == 3
lockout_hours == 24
history_cap == 10

StrategyNames == <<"AI Contrarian", "Late Entry", "Arbitrage">>
Strategies == {StrategyNames[k] : k \in 1..Len(StrategyNames)}

\* optimal_windows (14,16) and (22,2), avoid_hours [6,7]
optimal_windows == <<<<14, 16>>, <<22, 2>>>>
avoid_hours == {6, 7}

\* Faulty variant of is_trading_allowed: only the avoided hours are closed.
is_trading_allowed_wide(t) == (t % 24) \notin avoid_hours

is_trading_allowed(t) ==
    LET hour == t % 24
    IN  /\ hour \notin avoid_hours
        /\ \E w \in 1..Len(optimal_windows) :
              LET start == optimal_windows[w][1]
                  end == optimal_windows[w][2]
              IN  IF start < end THEN start <= hour /\ hour < end
                                 ELSE hour >= start \/ hour < end

(***************************************************************************)
(* datetime.isoformat / datetime.fromisoformat.  The stored string        *)
(* "YYYY-MM-DDTHH:..." is modelled by its date and hour fields.            *)
(***************************************************************************)
isoformat(t) == [date |-> t \div 24, hour |-> t % 24]
fromisoformat(s) == s.date * 24 + s.hour

(***************************************************************************)
(* Circuit breaker store.                                                  *)
(***************************************************************************)
DefaultBreaker ==
    [consecutive_losses |-> 0, circuit_broken |-> FALSE, broken_until |-> None]

\* load_circuit_breaker, FileNotFoundError branch
load_circuit_breaker == [s \in Strategies |-> DefaultBreaker]

\* The engine object: the fields of self that the operations below mutate.
Engine(tr, cbs, wr, al) ==
    [trades |-> tr, circuit_breaker_state |-> cbs, win_rate |-> wr, alerts |-> al]

\* Faulty variant of the record a close creates: it starts with one loss.
EnsureRecord_one_loss(cbs, strategy) ==
    IF strategy \in DOMAIN cbs THEN cbs
    ELSE (strategy :> [DefaultBreaker EXCEPT !.consecutive_losses = 1]) @@ cbs

EnsureRecord(cbs, strategy) ==
    IF strategy \in DOMAIN cbs THEN cbs ELSE (strategy :> DefaultBreaker) @@ cbs

\* Faulty variants of check_circuit_breaker_expired: one that never reports a
\* lockout, one that ends the lockout at broken_until itself.
check_circuit_breaker_expired_unlocked(cbs, strategy, t) ==
    [cbs |-> cbs, ret |-> FALSE]

\* A third faulty variant: a lockout that has run out is not reset.
check_circuit_breaker_expired_no_reset(cbs, strategy, t) ==
    IF strategy \notin DOMAIN cbs THEN [cbs |-> cbs, ret |-> FALSE]
    ELSE IF ~cbs[strategy].circuit_broken THEN [cbs |-> cbs, ret |-> FALSE]
    ELSE IF cbs[strategy].broken_until = None THEN [cbs |-> cbs, ret |-> FALSE]
    ELSE [cbs |-> cbs, ret |-> cbs[strategy].circuit_broken]

check_circuit_breaker_expired_early(cbs, strategy, t) ==
    IF strategy \notin DOMAIN cbs THEN [cbs |-> cbs, ret |-> FALSE]
    ELSE LET state == cbs[strategy] IN
         IF ~state.circuit_broken THEN [cbs |-> cbs, ret |-> FALSE]
         ELSE IF state.broken_until = None THEN [cbs |-> cbs, ret |-> FALSE]
         ELSE IF t >= fromisoformat(Val(state.broken_until))
              THEN [cbs |-> [cbs EXCEPT ![strategy] = DefaultBreaker], ret |-> FALSE]
              ELSE [cbs |-> cbs, ret |-> state.circuit_broken]

\* check_circuit_breaker_expired: the store after the call and the value returned
\* (TRUE = broken).
check_circuit_breaker_expired(cbs, strategy, t) ==
    IF strategy \notin DOMAIN cbs THEN [cbs |-> cbs, ret |-> FALSE]
    ELSE LET state == cbs[strategy] IN
         IF ~state.circuit_broken THEN [cbs |-> cbs, ret |-> FALSE]
         ELSE IF state.broken_until = None THEN [cbs |-> cbs, ret |-> FALSE]
         ELSE IF t > fromisoformat(Val(state.broken_until))
              THEN [cbs |-> [cbs EXCEPT ![strategy] = DefaultBreaker], ret |-> FALSE]
              ELSE [cbs |-> cbs, ret |-> state.circuit_broken]

\* check_circuit_breaker: TRUE = the strategy may trade
check_circuit_breaker(cbs, strategy, t) ==
    LET r == check_circuit_breaker_expired(cbs, strategy, t)
    IN  [cbs |-> r.cbs, ret |-> ~r.ret]

\* send_circuit_breaker_alert: the message is sent when the notifier works; a
\* failure (notifier = FALSE) is caught and printed, and nothing is sent
send_circuit_breaker_alert(al, strategy, loss_count) ==
    IF notifier THEN Append(al, [strategy |-> strategy, loss_count |-> loss_count])
    ELSE al

\* Faulty variant of record_loss: trips one loss late.
record_loss_late(eng, strategy, t) ==
    LET cbs == EnsureRecord(eng.circuit_breaker_state, strategy)
        n == cbs[strategy].consecutive_losses + 1
    IN  IF n > circuit_breaker_threshold
        THEN [eng EXCEPT
                !.circuit_breaker_state =
                    [cbs EXCEPT ![strategy] =
                        [consecutive_losses |-> n, circuit_broken |-> TRUE,
                         broken_until |-> Some(isoformat(t + lockout_hours))]],
                !.alerts = send_circuit_breaker_alert(eng.alerts, strategy, n)]
        ELSE [eng EXCEPT
                !.circuit_breaker_state =
                    [cbs EXCEPT ![strategy].consecutive_losses = n]]

\* Faulty variant of record_loss: the count stops at the threshold.
record_loss_capped(eng, strategy, t) ==
    LET cbs == EnsureRecord(eng.circuit_breaker_state, strategy)
        n == IF cbs[strategy].consecutive_losses < circuit_breaker_threshold
             THEN cbs[strategy].consecutive_losses + 1
             ELSE circuit_breaker_threshold
    IN  IF n >= circuit_breaker_threshold
        THEN [eng EXCEPT
                !.circuit_breaker_state =
                    [cbs EXCEPT ![strategy] =
                        [consecutive_losses |-> n, circuit_broken |-> TRUE,
                         broken_until |-> Some(isoformat(t + lockout_hours))]],
                !.alerts = send_circuit_breaker_alert(eng.alerts, strategy, n)]
        ELSE [eng EXCEPT
                !.circuit_breaker_state =
                    [cbs EXCEPT ![strategy].consecutive_losses = n]]

\* Faulty variant of record_loss: a strategy that is broken already keeps its
\* broken_until and sends no second alert.
record_loss_alert_once(eng, strategy, t) ==
    LET cbs == EnsureRecord(eng.circuit_breaker_state, strategy)
        n == cbs[strategy].consecutive_losses + 1
    IN  IF n = circuit_breaker_threshold
        THEN [eng EXCEPT
                !.circuit_breaker_state =
                    [cbs EXCEPT ![strategy] =
                        [consecutive_losses |-> n, circuit_broken |-> TRUE,
                         broken_until |-> Some(isoformat(t + lockout_hours))]],
                !.alerts = send_circuit_breaker_alert(eng.alerts, strategy, n)]
        ELSE [eng EXCEPT
                !.circuit_breaker_state =
                    [cbs EXCEPT ![strategy].consecutive_losses = n]]

\* Faulty variant of record_loss: a failure of the notifier is not caught, and
\* the call ends before the record is written.
record_loss_alert_raises(eng, strategy, t) ==
    LET cbs == EnsureRecord(eng.circuit_breaker_state, strategy)
        n == cbs[strategy].consecutive_losses + 1
    IN  IF n >= circuit_breaker_threshold
        THEN IF ~notifier THEN eng
             ELSE [eng EXCEPT
                     !.circuit_breaker_state =
                         [cbs EXCEPT ![strategy] =
                             [consecutive_losses |-> n, circuit_broken |-> TRUE,
                              broken_until |-> Some(isoformat(t + lockout_hours))]],
                     !.alerts = send_circuit_breaker_alert(eng.alerts, strategy, n)]
        ELSE [eng EXCEPT
                !.circuit_breaker_state =
                    [cbs EXCEPT ![strategy].consecutive_losses = n]]

record_loss(eng, strategy, t) ==
    LET cbs == EnsureRecord(eng.circuit_breaker_state, strategy)
        n == cbs[strategy].consecutive_losses + 1
    IN  IF n >= circuit_breaker_threshold
        THEN [eng EXCEPT
                !.circuit_breaker_state =
                    [cbs EXCEPT ![strategy] =
                        [consecutive_losses |-> n, circuit_broken |-> TRUE,
                         broken_until |-> Some(isoformat(t + lockout_hours))]],
                !.alerts = send_circuit_breaker_alert(eng.alerts, strategy, n)]
        ELSE [eng EXCEPT
                !.circuit_breaker_state =
                    [cbs EXCEPT ![strategy].consecutive_losses = n]]

\* Faulty variants of record_win: one that resets the count only, one that
\* leaves broken_until in place, one that resets every strategy's record.
record_win_count_only(eng, strategy) ==
    LET cbs == EnsureRecord(eng.circuit_breaker_state, strategy)
    IN  [eng EXCEPT !.circuit_breaker_state =
            [cbs EXCEPT ![strategy].consecutive_losses = 0]]

record_win_keep_until(eng, strategy) ==
    LET cbs == EnsureRecord(eng.circuit_breaker_state, strategy)
    IN  [eng EXCEPT !.circuit_breaker_state =
            [cbs EXCEPT ![strategy].consecutive_losses = 0,
                        ![strategy].circuit_broken = FALSE]]

record_win_all(eng, strategy) ==
    LET cbs == EnsureRecord(eng.circuit_breaker_state, strategy)
    IN  [eng EXCEPT !.circuit_breaker_state = [s \in DOMAIN cbs |-> DefaultBreaker]]

record_win(eng, strategy) ==
    LET cbs == EnsureRecord(eng.circuit_breaker_state, strategy)
    IN  [eng EXCEPT !.circuit_breaker_state =
            [cbs EXCEPT ![strategy] = DefaultBreaker]]

(***************************************************************************)
(* Trades.                                                                 *)
(***************************************************************************)
\* load_trades, FileNotFoundError branch
load_trades == <<>>

IsClosed(tr) == tr.status = "CLOSED"
IsOpen(tr) == tr.status = "OPEN"

\* Faulty variant of calculate_win_rate: a closed trade with pnl 0 is a win.
calculate_win_rate_zero_wins(tr) ==
    LET closed == {k \in 1..Len(tr) : IsClosed(tr[k])}
        wins == {k \in closed : Val(tr[k].pnl) >= 0}
    IN  IF closed = {} THEN Scale \div 2
        ELSE (Cardinality(wins) * Scale) \div Cardinality(closed)

calculate_win_rate(tr) ==
    LET closed == {k \in 1..Len(tr) : IsClosed(tr[k])}
        wins == {k \in closed : Val(tr[k].pnl) > 0}
    IN  IF closed = {} THEN Scale \div 2
        ELSE (Cardinality(wins) * Scale) \div Cardinality(closed)

Max(a, b) == IF a >= b THEN a ELSE b
Min(a, b) == IF a <= b THEN a ELSE b

\* Faulty variant of calculate_position_size: the result is not clamped.
calculate_position_size_unclamped(wr, strategy) ==
    base_position_size + (((wr - Scale \div 2) * 10) * base_position_size) \div Scale

\* calculate_position_size: the strategy argument is not read
calculate_position_size(wr, strategy) ==
    LET win_rate_bonus == (wr - Scale \div 2) * 10
        size == base_position_size + (win_rate_bonus * base_position_size) \div Scale
    IN  Max(min_position_size, Min(max_position_size, size))

\* str(uuid.uuid4())[:8]: an id no earlier trade has
NewId(tr) == Len(tr) + 1

open_position(eng, market_id, yes_price, strategy, t) ==
    LET position ==
          [id |-> NewId(eng.trades),
           market_id |-> market_id,
           strategy |-> strategy,
           entry_price |-> yes_price,
           entry_time |-> isoformat(t),
           position_size |-> calculate_position_size(eng.win_rate, strategy),
           exit_price |-> None,
           exit_time |-> None,
           pnl |-> None,
           status |-> "OPEN"]
    IN  [eng EXCEPT !.trades = Append(eng.trades, position)]

\* Faulty variant of the search in close_position: the status is not looked at.
FindAnyStatus(tr, trade_id) ==
    LET hits == {k \in 1..Len(tr) : tr[k].id = trade_id}
    IN  IF hits = {} THEN 0 ELSE CHOOSE k \in hits : \A j \in hits : k <= j

\* the first trade with this id and status OPEN (0 when there is none)
FindOpen(tr, trade_id) ==
    LET hits == {k \in 1..Len(tr) : tr[k].id = trade_id /\ IsOpen(tr[k])}
    IN  IF hits = {} THEN 0 ELSE CHOOSE k \in hits : \A j \in hits : k <= j

Profit(trade, exit_price) ==
    ((exit_price - trade.entry_price) * trade.position_size) \div trade.entry_price

\* close_position: the engine after the call and the value returned
\* (None, or the index of the trade closed)
close_position(eng, trade_id, exit_price, t) ==
    LET k == FindOpen(eng.trades, trade_id) IN
    IF k = 0 THEN [eng |-> eng, ret |-> None]
    ELSE LET trade == eng.trades[k]
             profit == Profit(trade, exit_price)
             closed == [trade EXCEPT !.exit_price = Some(exit_price),
                                     !.exit_time = Some(isoformat(t)),
                                     !.pnl = Some(profit),
                                     !.status = "CLOSED"]
             e1 == [eng EXCEPT !.trades[k] = closed]
             e2 == IF profit < 0 THEN record_loss(e1, trade.strategy, t)
                                 ELSE record_win(e1, trade.strategy)
         IN  [eng |-> [e2 EXCEPT !.win_rate = calculate_win_rate(e2.trades)],
              ret |-> Some(k)]

(***************************************************************************)
(* Market history.                                                         *)
(***************************************************************************)
\* load_market_history, FileNotFoundError branch
load_market_history == <<>>

\* lines 205-206: a market not seen before starts with empty lists
history_of(hist, market_id) ==
    IF market_id \in DOMAIN hist THEN hist[market_id]
    ELSE [prices |-> <<>>, timestamps |-> <<>>]

\* Faulty variant of update_market_history: a full history drops the new entry
\* instead of the oldest one.
update_market_history_drop_new(hist, market_id, yes_price, t) ==
    LET h0 == history_of(hist, market_id)
        h1 == [prices |-> Append(h0.prices, yes_price),
               timestamps |-> Append(h0.timestamps, isoformat(t))]
        h2 == IF Len(h1.prices) > history_cap
              THEN [prices |-> SubSeq(h1.prices, 1, history_cap),
                    timestamps |-> SubSeq(h1.timestamps, 1, history_cap)]
              ELSE h1
    IN  (market_id :> h2) @@ hist

update_market_history(hist, market_id, yes_price, t) ==
    LET h0 == history_of(hist, market_id)
        h1 == [prices |-> Append(h0.prices, yes_price),
               timestamps |-> Append(h0.timestamps, isoformat(t))]
        h2 == IF Len(h1.prices) > history_cap
              THEN [prices |-> Tail(h1.prices), timestamps |-> Tail(h1.timestamps)]
              ELSE h1
    IN  (market_id :> h2) @@ hist

(***************************************************************************)
(* Markets.  MARKETS_FILE lists the markets in a fixed order; a question   *)
(* is modelled by the set of the substrings of its lower-cased text that   *)
(* the engine looks for.                                                   *)
(***************************************************************************)
MarketIds == <<"btc", "eth">>
MarketSet == {MarketIds[k] : k \in 1..Len(MarketIds)}

Question(market_id) ==
    IF market_id = "btc" THEN {"bitcoin", "4h"} ELSE {"ethereum", "4h"}

target_timeframes == <<"4h", "4hour", "4-hour", "4H">>

\* get_market_timeframe: the question is lower-cased before the search
get_market_timeframe(question) ==
    LET hits == {k \in 1..Len(target_timeframes) : target_timeframes[k] \in question}
    IN  IF hits # {}
        THEN Some(target_timeframes[CHOOSE k \in hits : \A j \in hits : k <= j])
        ELSE IF "1 hour" \in question \/ "1h" \in question THEN Some("1h")
        ELSE IF "4 hour" \in question \/ "4h" \in question THEN Some("4h")
        ELSE IF "24 hour" \in question \/ "daily" \in question THEN Some("daily")
        ELSE None

\* `if not yes_price`: None and 0.0 are both falsy
Falsy(price) == price = None \/ Val(price) = 0

\* Faulty variant of get_market_price: a price that cannot be fetched reads 0.96.
get_market_price_default(prices, market_id) ==
    IF market_id \in DOMAIN prices /\ prices[market_id] # None
    THEN prices[market_id] ELSE Some(96)

\* get_market_price: what the market API answers during this cycle
get_market_price(prices, market_id) ==
    IF market_id \in DOMAIN prices THEN prices[market_id] ELSE None

(***************************************************************************)
(* SmartContrarian.detect_crowd_panic                                      *)
(***************************************************************************)
\* load_baselines, FileNotFoundError branch (nothing in the engine saves baselines)
volume_baselines == <<>>
market_volume == 100
panic_history_min == 5
extreme_low_price == 25
price_drop_threshold == 15

LastN(seq, n) ==
    IF Len(seq) <= n THEN seq ELSE SubSeq(seq, Len(seq) - n + 1, Len(seq))

BoolToInt(b) == IF b THEN 1 ELSE 0

\* None, or the confidence of the panic signal (Scale = 1.0)
detect_crowd_panic(market_id, yes_price, volume, prices_hist) ==
    IF Len(prices_hist) < panic_history_min THEN None
    ELSE LET baseline == IF market_id \in DOMAIN volume_baselines
                         THEN volume_baselines[market_id] ELSE volume
             \* volume / baseline > 1.5
             has_volume_spike == baseline > 0 /\ volume * 10 > 15 * baseline
             prices == LastN(prices_hist, 10)
             first == prices[1]
             latest == prices[Len(prices)]
             \* (latest - first) / first < -0.15
             has_sharp_drop ==
                 first > 0 /\ (latest - first) * 100 < -(price_drop_threshold * first)
             is_extreme_low == yes_price < extreme_low_price
             has_order_imbalance == has_sharp_drop /\ has_volume_spike
             panic_signals == BoolToInt(has_volume_spike) + BoolToInt(has_sharp_drop)
                              + BoolToInt(is_extreme_low) + BoolToInt(has_order_imbalance)
         IN  IF panic_signals >= 2
             THEN Some(Min((panic_signals * Scale) \div 4, Scale))
             ELSE None

(***************************************************************************)
(* find_buy_opportunities                                                  *)
(***************************************************************************)
\* Late Entry: all(prices[i] <= prices[i+1] for i in range(-2, 0)); for i = -1
\* the right-hand index is 0, the oldest retained price
is_reversing(prices) ==
    LET n == Len(prices)
    IN  prices[n - 1] <= prices[n] /\ prices[n] <= prices[1]

RECURSIVE InsertSorted(_, _, _)
\* x put into the sorted list after every element that does not come after it
\* (sign = 1: ascending signal_strength, sign = -1: descending); the sort is stable
InsertSorted(sorted, x, sign) ==
    IF sorted = <<>> THEN <<x>>
    ELSE IF sign * x.signal_strength < sign * Head(sorted).signal_strength
         THEN <<x>> \o sorted
         ELSE <<Head(sorted)>> \o InsertSorted(Tail(sorted), x, sign)

RECURSIVE SortedBy(_, _)
SortedBy(ops, sign) ==
    IF ops = <<>> THEN <<>>
    ELSE InsertSorted(SortedBy(SubSeq(ops, 1, Len(ops) - 1), sign), ops[Len(ops)], sign)

\* check_arbitrage_opportunity on two entries of the markets file
check_arbitrage_opportunity(market1, market2) ==
    IF Falsy(market1.yes_price) \/ Falsy(market2.yes_price) THEN None
    ELSE LET m1_price == Val(market1.yes_price)
             m2_price == Val(market2.yes_price)
             spread == IF m1_price >= m2_price THEN m1_price - m2_price
                       ELSE m2_price - m1_price
         IN  IF spread > arbitrage_min_spread
             THEN Some([market_1 |-> market1.market_id,
                        market_2 |-> market2.market_id,
                        spread |-> spread,
                        long |-> IF m1_price < m2_price THEN market1.market_id
                                 ELSE market2.market_id,
                        short |-> IF m1_price < m2_price THEN market2.market_id
                                  ELSE market1.market_id,
                        entry_price |-> Min(m1_price, m2_price),
                        exit_price |-> Max(m1_price, m2_price)])
             ELSE None

RECURSIVE ScanMarkets(_, _, _, _, _)
\* the loop over the markets (lines 349-405), from entry k on; acc holds the
\* history, the prices handed to update_market_history so far (calls) and the
\* two signal lists built so far
ScanMarkets(mkts, k, prices, t, acc) ==
    IF k > Len(mkts) THEN acc
    ELSE LET market == mkts[k]
             market_id == market.market_id
             yes_price == IF market.yes_price = None
                          THEN get_market_price(prices, market_id)
                          ELSE market.yes_price
             timeframe == get_market_timeframe(market.question)
         IN  IF Falsy(yes_price) THEN ScanMarkets(mkts, k + 1, prices, t, acc)
             ELSE IF timeframe \notin {Some("4h"), Some("4hour"), Some("4-hour"), Some("4H")}
                  THEN ScanMarkets(mkts, k + 1, prices, t, acc)
             ELSE LET price == Val(yes_price)
                      hist == update_market_history(acc.hist, market_id, price, t)
                      panic == detect_crowd_panic(market_id, price, market_volume,
                                                  hist[market_id].prices)
                      signal(strategy, strength) ==
                          [market_id |-> market_id, yes_price |-> price,
                           strategy |-> strategy, signal_strength |-> strength]
                      late == /\ price < late_entry_buy_threshold
                              /\ Len(hist[market_id].prices) >= 2
                              /\ is_reversing(hist[market_id].prices)
                  IN  ScanMarkets(mkts, k + 1, prices, t,
                        [hist |-> hist,
                         calls |-> [acc.calls EXCEPT ![market_id] = Append(@, price)],
                         contrarian |-> IF panic # None
                            THEN Append(acc.contrarian, signal("AI Contrarian", Val(panic)))
                            ELSE acc.contrarian,
                         late_entry |-> IF late
                            THEN Append(acc.late_entry, signal("Late Entry", price))
                            ELSE acc.late_entry])

RECURSIVE ScanPairs(_, _, _)
\* the arbitrage loop (lines 408-413) over the pairs i < j, in order, from (i, j) on
ScanPairs(mkts, i, j) ==
    IF i > Len(mkts) THEN <<>>
    ELSE IF j > Len(mkts) THEN ScanPairs(mkts, i + 1, i + 2)
    ELSE LET arb == IF "bitcoin" \in mkts[i].question /\ "ethereum" \in mkts[j].question
                    THEN check_arbitrage_opportunity(mkts[i], mkts[j])
                    ELSE None
         IN  (IF arb # None THEN <<Val(arb)>> ELSE <<>>) \o ScanPairs(mkts, i, j + 1)

\* Faulty variant of the return statement: the lists are returned as found.
unsorted_opportunities(contrarian_ops, late_entry_ops, arbitrage_ops) ==
    [contrarian |-> contrarian_ops,
     late_entry |-> late_entry_ops,
     arbitrage |-> arbitrage_ops]

\* the return statement (lines 415-419): contrarian by signal_strength, highest
\* first; late entry by signal_strength, lowest first; arbitrage as found
sorted_opportunities(contrarian_ops, late_entry_ops, arbitrage_ops) ==
    [contrarian |-> SortedBy(contrarian_ops, -1),
     late_entry |-> SortedBy(late_entry_ops, 1),
     arbitrage |-> arbitrage_ops]

\* find_buy_opportunities: the history after the call and the three signal lists
find_buy_opportunities(hist, log, mkts, prices, t) ==
    LET acc == ScanMarkets(mkts, 1, prices, t,
                           [hist |-> hist, calls |-> log,
                            contrarian |-> <<>>, late_entry |-> <<>>])
        ops == sorted_opportunities(acc.contrarian, acc.late_entry,
                                    ScanPairs(mkts, 1, 2))
    IN  [hist |-> acc.hist,
         recorded |-> acc.calls,
         contrarian |-> ops.contrarian,
         late_entry |-> ops.late_entry,
         arbitrage |-> ops.arbitrage]

(***************************************************************************)
(* run_trading_cycle, in steps.  One process constructs the engine         *)
(* (__init__) and runs one cycle; pc is its position, markets is the local *)
(* variable read from MARKETS_FILE, api is what the market API answers     *)
(* while the process runs, all_ops the signal lists.                       *)
(***************************************************************************)
Self == Engine(trades, circuit_breaker_state, win_rate, alerts)

SetSelf(eng) ==
    /\ trades' = eng.trades
    /\ circuit_breaker_state' = eng.circuit_breaker_state
    /\ win_rate' = eng.win_rate
    /\ alerts' = eng.alerts

NoOps == [contrarian |-> <<>>, late_entry |-> <<>>, arbitrage |-> <<>>]
NoAnswers == [m \in MarketSet |-> None]

\* the record of the last step that changed anything (what it was applied to and
\* what it answered)
Last(op, strategy, id, price, ok, n, before) ==
    [op |-> op, strategy |-> strategy, id |-> id, price |-> price, ok |-> ok,
     n |-> n, before |-> before]

BreakerOf(cbs, strategy) ==
    IF strategy \in DOMAIN cbs THEN cbs[strategy] ELSE DefaultBreaker

\* prices the markets file and the market API may hold
FilePrices(market_id) ==
    IF market_id = "btc" THEN {Some(20), Some(75)} ELSE {Some(96)}
ApiPrices(market_id) ==
    IF market_id = "btc" THEN {None, Some(70), Some(96)} ELSE {None}

FileContents == {f \in [MarketSet -> UNION {FilePrices(m) : m \in MarketSet}] :
                    \A m \in MarketSet : f[m] \in FilePrices(m)}
ApiAnswers == {a \in [MarketSet -> UNION {ApiPrices(m) : m \in MarketSet}] :
                  \A m \in MarketSet : a[m] \in ApiPrices(m)}

\* MARKETS_FILE: missing (None), or the list of the markets with their prices
MarketsFiles ==
    {None} \cup
    {Some([k \in 1..Len(MarketIds) |->
              [market_id |-> MarketIds[k], yes_price |-> f[MarketIds[k]],
               question |-> Question(MarketIds[k])]]) : f \in FileContents}

RECURSIVE CheckBreakers(_, _, _)
\* lines 503-506: every strategy's breaker is queried in turn, from strategy k on;
\* the store after the queries and the strategies reported broken
CheckBreakers(cbs, k, t) ==
    IF k > Len(StrategyNames) THEN [cbs |-> cbs, active |-> {}]
    ELSE LET r == check_circuit_breaker_expired(cbs, StrategyNames[k], t)
             rest == CheckBreakers(r.cbs, k + 1, t)
         IN  [cbs |-> rest.cbs,
              active |-> rest.active \cup (IF r.ret THEN {StrategyNames[k]} ELSE {})]

\* the model runs a cycle only while every market's history is shorter than MaxHistory
HistoryRoom(hist) == \A m \in DOMAIN hist : Len(hist[m].prices) < MaxHistory

\* one process: __init__, then run_trading_cycle up to the signal lists (lines 489-532)
CycleStart(file, answers) ==
    /\ pc = "idle"
    /\ UNCHANGED runs
    /\ notifier' \in BOOLEAN
    /\ HistoryRoom(market_history)
    /\ api' = answers
    /\ win_rate' = calculate_win_rate(trades)
    /\ last' = Last("start", "", 0, None, is_trading_allowed(now), 0, DefaultBreaker)
    /\ UNCHANGED <<trades, alerts, now>>
    /\ IF ~is_trading_allowed(now)
       THEN /\ pc' = "done"
            /\ markets' = None
            /\ UNCHANGED <<circuit_breaker_state, market_history, recorded, all_ops>>
       ELSE LET chk == CheckBreakers(circuit_breaker_state, 1, now) IN
            /\ circuit_breaker_state' = chk.cbs
            /\ IF chk.active = Strategies
               THEN /\ pc' = "done"
                    /\ markets' = None
                    /\ UNCHANGED <<market_history, recorded, all_ops>>
               ELSE /\ markets' = file
                    /\ IF file = None
                       THEN /\ pc' = "done"
                            /\ UNCHANGED <<market_history, recorded, all_ops>>
                       ELSE LET r == find_buy_opportunities(market_history, recorded,
                                                            Val(file),
                                                            answers, now)
                            IN  /\ market_history' = r.hist
                                /\ recorded' = r.recorded
                                /\ all_ops' = [contrarian |-> r.contrarian,
                                               late_entry |-> r.late_entry,
                                               arbitrage |-> r.arbitrage]
                                /\ pc' = "contrarian"

has_position(tr, market_id) ==
    \E k \in 1..Len(tr) : tr[k].market_id = market_id /\ IsOpen(tr[k])

RECURSIVE OpenSignals(_, _, _, _, _)
\* `for opp in ops[:limit]`, from signal k on: open unless the market has an OPEN trade
OpenSignals(eng, ops, k, limit, t) ==
    IF k > Len(ops) \/ k > limit THEN eng
    ELSE LET opp == ops[k]
             e1 == IF has_position(eng.trades, opp.market_id) THEN eng
                   ELSE open_position(eng, opp.market_id, opp.yes_price, opp.strategy, t)
         IN  OpenSignals(e1, ops, k + 1, limit, t)

\* `for arb in arbitrage_ops[:1]`: the long leg is opened, with no check for an
\* existing position
OpenArbitrage(eng, ops, t) ==
    IF ops = <<>> THEN eng
    ELSE open_position(eng, ops[1].long, ops[1].entry_price, "Arbitrage", t)

\* the engine after the block's `self.check_circuit_breaker_expired(strategy)` has run
Queried(strategy) ==
    [Self EXCEPT !.circuit_breaker_state =
        check_circuit_breaker_expired(circuit_breaker_state, strategy, now).cbs]

\* one of the three execution blocks (lines 534-562); opened is the engine after
\* the block's body
Execute(at, strategy, next, opened) ==
    /\ pc = at
    /\ LET r == check_circuit_breaker_expired(circuit_breaker_state, strategy, now)
           e1 == IF r.ret THEN Queried(strategy) ELSE opened
       IN  /\ Len(e1.trades) <= MaxTrades
           /\ SetSelf(e1)
           /\ last' = Last("exec", strategy, 0, None, ~r.ret,
                           Len(e1.trades) - Len(trades),
                           BreakerOf(circuit_breaker_state, strategy))
    /\ pc' = next
    /\ UNCHANGED <<market_history, recorded, runs, notifier, now, markets, api, all_ops>>

\* Faulty variant of the Late Entry block: the list is not cut to two signals.
LateEntryOpens_uncapped(eng) ==
    OpenSignals(eng, all_ops.late_entry, 1, Len(all_ops.late_entry), now)

ContrarianOpens(eng) == OpenSignals(eng, all_ops.contrarian, 1, 1, now)
LateEntryOpens(eng) == OpenSignals(eng, all_ops.late_entry, 1, 2, now)
ArbitrageOpens(eng) == OpenArbitrage(eng, all_ops.arbitrage, now)

ExecContrarian ==
    Execute("contrarian", "AI Contrarian", "late_entry",
            ContrarianOpens(Queried("AI Contrarian")))
ExecLateEntry ==
    Execute("late_entry", "Late Entry", "arbitrage",
            LateEntryOpens(Queried("Late Entry")))
ExecArbitrage ==
    Execute("arbitrage", "Arbitrage", "sell",
            ArbitrageOpens(Queried("Arbitrage")))

sell_threshold(strategy) == IF strategy = "AI Contrarian" THEN 70 ELSE 65

\* Faulty variant of the exit test: a price at the threshold sells.
ShouldSell_at_threshold(trade, answers) ==
    LET yes_price == get_market_price(answers, trade.market_id)
    IN  /\ IsOpen(trade)
        /\ ~Falsy(yes_price)
        /\ Val(yes_price) >= sell_threshold(trade.strategy)

\* whether check_sell_signals closes this trade, given the API's answers
ShouldSell(trade, answers) ==
    LET yes_price == get_market_price(answers, trade.market_id)
    IN  /\ IsOpen(trade)
        /\ ~Falsy(yes_price)
        /\ Val(yes_price) > sell_threshold(trade.strategy)

RECURSIVE check_sell_signals(_, _, _, _)
\* check_sell_signals: the loop over the trades, from trade k on
check_sell_signals(eng, k, answers, t) ==
    IF k > Len(eng.trades) THEN eng
    ELSE LET trade == eng.trades[k]
             e1 == IF ShouldSell(trade, answers)
                   THEN close_position(eng, trade.id,
                            Val(get_market_price(answers, trade.market_id)), t).eng
                   ELSE eng
         IN  check_sell_signals(e1, k + 1, answers, t)

\* lines 564-578: the exits, and run_trading_cycle returns
CheckSell ==
    /\ pc = "sell"
    /\ LET e1 == check_sell_signals(Self, 1, api, now)
       IN  /\ SetSelf(e1)
           /\ last' = Last("sell", "", 0, None, TRUE,
                           Cardinality({k \in 1..Len(trades) :
                                          IsOpen(trades[k]) /\ IsClosed(e1.trades[k])}),
                           DefaultBreaker)
    /\ pc' = "done"
    /\ UNCHANGED <<market_history, recorded, runs, notifier, now, markets, api, all_ops>>

\* the process exits: its local data is gone, the stores stay
Exit ==
    /\ pc = "done"
    /\ pc' = "idle"
    /\ markets' = None
    /\ api' = NoAnswers
    /\ all_ops' = NoOps
    /\ last' = Last("exit", "", 0, None, TRUE, 0, DefaultBreaker)
    /\ UNCHANGED <<trades, circuit_breaker_state, market_history, recorded, runs,
                   win_rate, alerts, now>>
    /\ notifier' = TRUE

(***************************************************************************)
(* The clock.  It moves between runs, by a day or by a day and an hour.    *)
(***************************************************************************)
StartTime == optimal_windows[1][1] + 1
TickSteps == {24, 25}
TickCount(t) == (t - StartTime) \div 24

Tick(d) ==
    /\ pc = "idle"
    /\ TickCount(now + d) <= MaxTicks
    /\ now' = now + d
    /\ last' = Last("tick", "", 0, None, TRUE, d, DefaultBreaker)
    /\ UNCHANGED <<trades, circuit_breaker_state, market_history, recorded, runs,
                   notifier, win_rate, alerts, pc, markets, api, all_ops>>

\* The processes of the specification RaceSpec (below): a process that is not
\* running holds nothing.
RunIds == {1, 2}
RunOff == [pc |-> "off", loaded |-> 0,
           self |-> Engine(<<>>, load_circuit_breaker, Scale \div 2, <<>>)]

Init ==
    /\ trades = load_trades
    /\ circuit_breaker_state = load_circuit_breaker
    /\ market_history = load_market_history
    /\ recorded = [m \in MarketSet |-> <<>>]
    /\ runs = [r \in RunIds |-> RunOff]
    /\ notifier = TRUE
    /\ win_rate = calculate_win_rate(load_trades)
    /\ alerts = <<>>
    /\ now = StartTime
    /\ pc = "idle"
    /\ markets = None
    /\ api = NoAnswers
    /\ all_ops = NoOps
    /\ last = Last("init", "", 0, None, TRUE, 0, DefaultBreaker)

Next ==
    \/ \E file \in MarketsFiles, answers \in ApiAnswers :
          CycleStart(file, answers)
    \/ ExecContrarian
    \/ ExecLateEntry
    \/ ExecArbitrage
    \/ CheckSell
    \/ Exit
    \/ \E d \in TickSteps : Tick(d)

Spec == Init /\ [][Next]_vars

(***************************************************************************)
(* The engine's operations called one at a time, in any order: the         *)
(* specification OpsSpec.  The process position pc and its local data are  *)
(* not used.                                                               *)
(***************************************************************************)
OpStrategies == {"AI Contrarian", "Other"}
OpMarkets == {"btc"}
OpEntryPrices == {75}
OpExitPrices == {70, 75, 96}

CycleIdle == UNCHANGED <<market_history, recorded, runs, notifier, now, pc, markets, api, all_ops>>

OpOpen(market_id, yes_price, strategy) ==
    /\ Len(trades) < MaxTrades
    /\ SetSelf(open_position(Self, market_id, yes_price, strategy, now))
    /\ last' = Last("open", strategy, NewId(trades), Some(yes_price), TRUE, 0,
                    BreakerOf(circuit_breaker_state, strategy))
    /\ CycleIdle

\* the strategy of the trade that close_position(trade_id, ...) would close
StrategyOfOpen(tr, trade_id) ==
    IF FindOpen(tr, trade_id) = 0 THEN "" ELSE tr[FindOpen(tr, trade_id)].strategy

OpClose(trade_id, exit_price) ==
    /\ LET r == close_position(Self, trade_id, exit_price, now)
           strategy == StrategyOfOpen(trades, trade_id)
       IN  /\ SetSelf(r.eng)
           /\ last' = IF r.ret = None
                       THEN Last("close_none", "", trade_id, None, FALSE, 0,
                                 DefaultBreaker)
                       ELSE Last("close", strategy, trade_id, Some(exit_price), TRUE,
                                 Val(r.eng.trades[Val(r.ret)].pnl),
                                 BreakerOf(circuit_breaker_state, strategy))
    /\ CycleIdle

OpQuery(strategy) ==
    /\ LET r == check_circuit_breaker(circuit_breaker_state, strategy, now)
       IN  /\ circuit_breaker_state' = r.cbs
           /\ last' = IF r.cbs = circuit_breaker_state THEN last
                       ELSE Last("query", strategy, 0, None, r.ret, 0,
                                 BreakerOf(circuit_breaker_state, strategy))
    /\ UNCHANGED <<trades, win_rate, alerts>>
    /\ CycleIdle

\* The operations read the clock only to set and to test broken_until, so in
\* this specification the clock moves only while some lockout is pending.
OpTick(d) ==
    /\ \E s \in DOMAIN circuit_breaker_state : circuit_breaker_state[s].circuit_broken
    /\ Tick(d)

OpsNext ==
    \/ \E m \in OpMarkets, p \in OpEntryPrices, s \in OpStrategies : OpOpen(m, p, s)
    \/ \E id \in 1..(Len(trades) + 1), p \in OpExitPrices : OpClose(id, p)
    \/ \E s \in OpStrategies : OpQuery(s)
    \/ \E d \in TickSteps : OpTick(d)

OpsSpec == Init /\ [][OpsNext]_vars

(***************************************************************************)
(* The execution blocks of run_trading_cycle on signal lists of any length *)
(* and order, as find_buy_opportunities returns them for a markets file    *)
(* with more markets: the specification ExecSpec.  The API gives no price, *)
(* so nothing is sold.                                                     *)
(***************************************************************************)
ExecMarkets == {"btc", "eth", "sol"}

\* the sequences of at most n different elements of S
SeqsNoRepeat(S, n) ==
    UNION {{q \in [1..k -> S] : \A i, j \in 1..k : q[i] = q[j] => i = j} : k \in 0..n}

ContrarianStrength(m) == CASE m = "btc" -> Scale \div 2 [] m = "eth" -> Scale
                           [] OTHER -> (3 * Scale) \div 4

LateEntryPrice(m) == CASE m = "btc" -> 30 [] m = "eth" -> 10 [] OTHER -> 20

ContrarianSignal(m) ==
    [market_id |-> m, yes_price |-> 20, strategy |-> "AI Contrarian",
     signal_strength |-> ContrarianStrength(m)]

LateEntrySignal(m) ==
    [market_id |-> m, yes_price |-> LateEntryPrice(m), strategy |-> "Late Entry",
     signal_strength |-> LateEntryPrice(m)]

ArbitrageSignal(m) ==
    [market_1 |-> m, market_2 |-> "ada", spread |-> 76, long |-> m, short |-> "ada",
     entry_price |-> 20, exit_price |-> 96]

ExecBegin(c, l, a) ==
    /\ pc = "idle"
    /\ Len(trades) < MaxTrades
    /\ all_ops' = sorted_opportunities([k \in 1..Len(c) |-> ContrarianSignal(c[k])],
                                       [k \in 1..Len(l) |-> LateEntrySignal(l[k])],
                                       [k \in 1..Len(a) |-> ArbitrageSignal(a[k])])
    /\ pc' = "contrarian"
    /\ api' = NoAnswers
    /\ win_rate' = calculate_win_rate(trades)
    /\ last' = Last("begin", "", 0, None, TRUE, 0, DefaultBreaker)
    /\ UNCHANGED <<trades, circuit_breaker_state, market_history, recorded, runs, notifier, alerts,
                   now, markets>>

ExecNext ==
    \/ \E c \in SeqsNoRepeat({"btc", "eth"}, 2), l \in SeqsNoRepeat(ExecMarkets, 3),
          a \in SeqsNoRepeat({"btc", "eth"}, 2) : ExecBegin(c, l, a)
    \/ ExecContrarian
    \/ ExecLateEntry
    \/ ExecArbitrage
    \/ CheckSell
    \/ Exit

ExecSpec == Init /\ [][ExecNext]_vars

(***************************************************************************)
(* update_market_history called any number of times: the specification     *)
(* HistSpec.  recorded keeps every price handed to it, per market.         *)
(***************************************************************************)
RecordPrices(market_id) == IF market_id = "btc" THEN {20, 75} ELSE {96}

RecordedCount == Len(recorded["btc"]) + Len(recorded["eth"])

OpRecord(market_id, yes_price) ==
    /\ RecordedCount < MaxRecorded
    /\ market_history' = update_market_history(market_history, market_id, yes_price, now)
    /\ recorded' = [recorded EXCEPT ![market_id] = Append(@, yes_price)]
    /\ last' = Last("record", "", 0, Some(yes_price), TRUE,
                    Len(recorded[market_id]) + 1, DefaultBreaker)
    /\ UNCHANGED <<trades, circuit_breaker_state, win_rate, alerts,
                   now, pc, markets, api, all_ops, runs, notifier>>

HistNext ==
    \/ \E m \in MarketSet : \E p \in RecordPrices(m) : OpRecord(m, p)
    \/ \E d \in TickSteps : Tick(d)

HistSpec == Init /\ [][HistNext]_vars

(***************************************************************************)
(* Two processes over the same files: the specification RaceSpec.  Each    *)
(* process constructs its own engine (__init__ loads the three files into  *)
(* self), opens and closes positions as a cycle does, and exits, once; the *)
(* processes take their steps in any order.  Here trades and               *)
(* circuit_breaker_state are the files, and runs[r].self is the engine of  *)
(* process r; loaded is the number of trades it found in the file.  The    *)
(* ids of a process are positions in its own list; ids of different        *)
(* processes are never compared.                                           *)
(***************************************************************************)
RaceMarkets == {"btc", "eth"}
RaceExitPrices == {5, 96}

\* Faulty variant of save_trades: an existing file is left as it is.
save_trades_keep(stored, tr) == IF stored = <<>> THEN tr ELSE stored

\* save_trades: open(TRADES_FILE, "w") empties the file, json.dump writes the
\* whole list; what the file held is not read
save_trades(stored, tr) == tr

\* save_circuit_breaker, in the same way
save_circuit_breaker(stored, cbs) == cbs

\* the messages send_circuit_breaker_alert has handed over since eng0
SentSince(eng0, eng1) ==
    SubSeq(eng1.alerts, Len(eng0.alerts) + 1, Len(eng1.alerts))

\* __init__, lines 66-69
RunInit(r) ==
    /\ runs[r].pc = "off"
    /\ runs' = [runs EXCEPT ![r] =
                  [pc |-> "on", loaded |-> Len(trades),
                   self |-> Engine(trades, circuit_breaker_state,
                                   calculate_win_rate(trades), <<>>)]]
    /\ last' = Last("run_init", "", r, None, TRUE, Len(trades), DefaultBreaker)
    /\ UNCHANGED <<trades, circuit_breaker_state, market_history, recorded, win_rate,
                   alerts, now, pc, markets, api, all_ops, notifier>>

\* the Late Entry block (lines 547-556) on one signal
RunOpen(r, market_id) ==
    /\ runs[r].pc = "on"
    /\ LET eng == runs[r].self
           q == check_circuit_breaker_expired(eng.circuit_breaker_state, "Late Entry", now)
           e0 == [eng EXCEPT !.circuit_breaker_state = q.cbs]
           e1 == IF q.ret THEN e0
                 ELSE OpenSignals(e0, <<LateEntrySignal(market_id)>>, 1, 1, now)
       IN  /\ e1 # eng
           /\ Len(e1.trades) <= MaxRaceTrades
           /\ runs' = [runs EXCEPT ![r].self = e1]
           /\ trades' = IF e1.trades # eng.trades THEN save_trades(trades, e1.trades)
                        ELSE trades
           /\ circuit_breaker_state' =
                 IF q.cbs # eng.circuit_breaker_state
                 THEN save_circuit_breaker(circuit_breaker_state, q.cbs)
                 ELSE circuit_breaker_state
           /\ last' = Last("run_open", "Late Entry", r, Some(LateEntryPrice(market_id)),
                           TRUE, Len(e1.trades) - Len(eng.trades),
                           BreakerOf(circuit_breaker_state, "Late Entry"))
    /\ UNCHANGED <<market_history, recorded, win_rate, alerts, now, pc, markets, api,
                   all_ops, notifier>>

\* close_position (lines 443-469) on the engine of process r
RunClose(r, trade_id, exit_price) ==
    /\ runs[r].pc = "on"
    /\ LET eng == runs[r].self
           c == close_position(eng, trade_id, exit_price, now)
       IN  /\ c.ret # None
           /\ runs' = [runs EXCEPT ![r].self = c.eng]
           /\ trades' = save_trades(trades, c.eng.trades)
           /\ circuit_breaker_state' =
                 save_circuit_breaker(circuit_breaker_state, c.eng.circuit_breaker_state)
           /\ alerts' = alerts \o SentSince(eng, c.eng)
           /\ last' = Last("run_close", StrategyOfOpen(eng.trades, trade_id), r,
                           Some(exit_price), TRUE, Val(c.eng.trades[Val(c.ret)].pnl),
                           BreakerOf(circuit_breaker_state, "Late Entry"))
    /\ UNCHANGED <<market_history, recorded, win_rate, now, pc, markets, api, all_ops,
                   notifier>>

\* the process exits: its engine is gone, the files stay
RunExit(r) ==
    /\ runs[r].pc = "on"
    /\ runs' = [runs EXCEPT ![r] = [RunOff EXCEPT !.pc = "done"]]
    /\ last' = Last("run_exit", "", r, None, TRUE, 0, DefaultBreaker)
    /\ UNCHANGED <<trades, circuit_breaker_state, market_history, recorded, win_rate,
                   alerts, now, pc, markets, api, all_ops, notifier>>

RaceNext ==
    \/ \E r \in RunIds : RunInit(r)
    \/ \E r \in RunIds, m \in RaceMarkets : RunOpen(r, m)
    \/ \E r \in RunIds, id \in 1..MaxRaceTrades, p \in RaceExitPrices : RunClose(r, id, p)
    \/ \E r \in RunIds : RunExit(r)

RaceSpec == Init /\ [][RaceNext]_vars

(***************************************************************************)
(* Cycles that keep being run while time keeps advancing: the              *)
(* specification LiveSpec.  The clock moves between runs, by half a day or *)
(* a day, up to LiveEnd, an hour inside the trading window two lockouts    *)
(* after the start.  The markets file is missing or lists btc at 0.75 and  *)
(* eth at 0.96; the market API answers with a price only while a lockout   *)
(* set now would run out before LiveEnd.  A process that has started runs  *)
(* to its end, processes keep being started, and the clock keeps moving    *)
(* (the fairness conditions of LiveSpec).  CheckSell is enabled exactly    *)
(* when pc = "sell" and always leaves it, so weak fairness of CheckSell is *)
(* written as: pc is not "sell" again and again.                           *)
(***************************************************************************)
LiveEnd == StartTime + 2 * lockout_hours
LiveTickSteps == {lockout_hours \div 2, lockout_hours}

LiveFiles ==
    {None,
     Some([k \in 1..Len(MarketIds) |->
             [market_id |-> MarketIds[k],
              yes_price |-> IF MarketIds[k] = "btc" THEN Some(75) ELSE Some(96),
              question |-> Question(MarketIds[k])]])}

LiveAnswers(t) ==
    IF t + lockout_hours < LiveEnd
    THEN {a \in ApiAnswers : a["btc"] \in {None, Some(70)}}
    ELSE {NoAnswers}

\* a cycle is started on a markets file only while the model has room for the
\* trades and the history entries it can add
LiveRoom(file) ==
    file # None =>
        /\ Len(trades) + 2 <= MaxTrades
        /\ \A m \in DOMAIN market_history :
              Len(market_history[m].prices) + 1 < MaxHistory

LiveStart ==
    \E file \in LiveFiles, answers \in LiveAnswers(now) :
        /\ LiveRoom(file)
        /\ CycleStart(file, answers)

LiveTick ==
    \E d \in LiveTickSteps :
        /\ pc = "idle"
        /\ now + d <= LiveEnd
        /\ now' = now + d
        /\ last' = Last("tick", "", 0, None, TRUE, d, DefaultBreaker)
        /\ UNCHANGED <<trades, circuit_breaker_state, market_history, recorded, runs,
                       notifier, win_rate, alerts, pc, markets, api, all_ops>>

LiveNext ==
    \/ LiveStart
    \/ ExecContrarian
    \/ ExecLateEntry
    \/ ExecArbitrage
    \/ CheckSell
    \/ Exit
    \/ LiveTick

LiveSpec ==
    /\ Init
    /\ [][LiveNext]_vars
    /\ WF_vars(LiveStart)
    /\ WF_vars(ExecContrarian \/ ExecLateEntry \/ ExecArbitrage \/ Exit)
    /\ []<>(pc # "sell")
    /\ SF_vars(LiveTick)

(***************************************************************************)
(* Cycles on markets whose prices may be missing: the specification        *)
(* DataSpec.  The markets file lists btc and eth, each with the price 0.20 *)
(* or with no price; the market API answers 0.96 or nothing for each; the  *)
(* clock stands still inside the trading window.                           *)
(***************************************************************************)
DataFilePrices == {None, Some(20)}
DataApiPrices == {None, Some(96)}

DataFiles ==
    {Some([k \in 1..Len(MarketIds) |->
              [market_id |-> MarketIds[k], yes_price |-> f[MarketIds[k]],
               question |-> Question(MarketIds[k])]]) :
        f \in [MarketSet -> DataFilePrices]}

DataAnswers == [MarketSet -> DataApiPrices]

DataStart ==
    \E file \in DataFiles, answers \in DataAnswers :
        /\ Len(trades) + 2 <= MaxTrades
        /\ CycleStart(file, answers)

DataNext ==
    \/ DataStart
    \/ ExecContrarian
    \/ ExecLateEntry
    \/ ExecArbitrage
    \/ CheckSell
    \/ Exit

DataSpec == Init /\ [][DataNext]_vars

(***************************************************************************)
(* find_buy_opportunities called cycle after cycle on markets whose prices *)
(* move below and above the Late Entry threshold: the specification        *)
(* ScanSpec.  Every market has its price in the file, so the market API is *)
(* not asked.                                                              *)
(***************************************************************************)
ScanPrices == {10, 20, 40}

ScanFiles ==
    {[k \in 1..Len(MarketIds) |->
         [market_id |-> MarketIds[k], yes_price |-> Some(f[MarketIds[k]]),
          question |-> Question(MarketIds[k])]] :
        f \in [MarketSet -> ScanPrices]}

\* lines 343-419 on one content of MARKETS_FILE
OpScan(file) ==
    /\ HistoryRoom(market_history)
    /\ LET r == find_buy_opportunities(market_history, recorded, file, NoAnswers, now)
       IN  /\ market_history' = r.hist
           /\ recorded' = r.recorded
           /\ all_ops' = [contrarian |-> r.contrarian,
                          late_entry |-> r.late_entry,
                          arbitrage |-> r.arbitrage]
           /\ last' = Last("scan", "", 0, None, TRUE, Len(r.late_entry),
                           DefaultBreaker)
    /\ markets' = Some(file)
    /\ UNCHANGED <<trades, circuit_breaker_state, win_rate, alerts, now, pc, api,
                   runs, notifier>>

ScanNext == \E file \in ScanFiles : OpScan(file)

ScanSpec == Init /\ [][ScanNext]_vars

(***************************************************************************)
(* Properties.                                                             *)
(***************************************************************************)
\* the trade at index k is closed by this step
ClosedNow(k) == IsOpen(trades[k]) /\ IsClosed(trades'[k])

\* the record says BROKEN and the lockout has not run out: what a breaker query
\* reports as broken, read off the store
Locked(cbs, strategy, t) ==
    /\ strategy \in DOMAIN cbs
    /\ cbs[strategy].circuit_broken
    /\ cbs[strategy].broken_until # None
    /\ t <= fromisoformat(Val(cbs[strategy].broken_until))

timeframe_of(market_id) == get_market_timeframe(Question(market_id))

\* C1: at most one OPEN position exists for a (strategy, market id, timeframe)
\* triple, in every state the trading cycles reach.
C1_SingleOpen ==
    \A i, j \in 1..Len(trades) :
        ( /\ IsOpen(trades[i]) /\ IsOpen(trades[j])
          /\ trades[i].strategy = trades[j].strategy
          /\ trades[i].market_id = trades[j].market_id
          /\ timeframe_of(trades[i].market_id) = timeframe_of(trades[j].market_id) )
        => i = j

\* C2: a losing close that brings the strategy's consecutive_losses to the
\* threshold makes it BROKEN with broken_until = time of the close + 24h and
\* sends an alert; a breaker only becomes BROKEN by a losing close that leaves at
\* least threshold consecutive losses.
C2_BreakerTrip ==
    [][ /\ \A k \in 1..Len(trades) :
              (ClosedNow(k) /\ Val(trades'[k].pnl) < 0) =>
                 LET s == trades[k].strategy
                     before == BreakerOf(circuit_breaker_state, s)
                     after == circuit_breaker_state'[s]
                 IN  /\ after.consecutive_losses = before.consecutive_losses + 1
                     /\ after.consecutive_losses = circuit_breaker_threshold =>
                           /\ after.circuit_broken
                           /\ after.broken_until =
                                 Some(isoformat(fromisoformat(Val(trades'[k].exit_time))
                                                + 24))
                           /\ alerts' = Append(alerts,
                                 [strategy |-> s,
                                  loss_count |-> circuit_breaker_threshold])
                     /\ after.consecutive_losses < circuit_breaker_threshold =>
                           /\ ~after.circuit_broken
                           /\ alerts' = alerts
        /\ \A s \in DOMAIN circuit_breaker_state' :
              ( /\ circuit_breaker_state'[s].circuit_broken
                /\ ~BreakerOf(circuit_breaker_state, s).circuit_broken ) =>
                 /\ circuit_breaker_state'[s].consecutive_losses
                       >= circuit_breaker_threshold
                 /\ \E k \in 1..Len(trades) :
                       /\ ClosedNow(k) /\ trades[k].strategy = s
                       /\ Val(trades'[k].pnl) < 0
      ]_vars

C2_Witness ==
    /\ last.op = "close" /\ last.n < 0
    /\ ~last.before.circuit_broken
    /\ last.before.consecutive_losses = circuit_breaker_threshold - 1
    /\ circuit_breaker_state[last.strategy] =
          [consecutive_losses |-> circuit_breaker_threshold,
           circuit_broken |-> TRUE,
           broken_until |-> Some(isoformat(now + 24))]
    /\ alerts # <<>>
    /\ alerts[Len(alerts)].strategy = last.strategy

\* the position in the cycle at which a strategy's signals are executed, and
\* whether run_trading_cycle has a signal of that strategy it would act on
ExecPc(strategy) ==
    CASE strategy = "AI Contrarian" -> "contrarian"
      [] strategy = "Late Entry" -> "late_entry"
      [] OTHER -> "arbitrage"

HasUsableSignal(strategy) ==
    CASE strategy = "AI Contrarian" ->
            /\ all_ops.contrarian # <<>>
            /\ ~has_position(trades, all_ops.contrarian[1].market_id)
      [] strategy = "Late Entry" ->
            /\ all_ops.late_entry # <<>>
            /\ ~has_position(trades, all_ops.late_entry[1].market_id)
      [] OTHER -> all_ops.arbitrage # <<>>

OpenedNow(strategy) ==
    {k \in (Len(trades) + 1)..Len(trades') : trades'[k].strategy = strategy}

\* C3: no position is opened for a strategy whose breaker reports BROKEN when
\* its signals are executed; a strategy that is tradeable then, and has a signal
\* for a market without an open position, opens one in that cycle.
C3_NoOpensWhileBroken ==
    [][ \A s \in Strategies :
           /\ Locked(circuit_breaker_state, s, now) => OpenedNow(s) = {}
           /\ ( /\ pc = ExecPc(s)
                /\ ~Locked(circuit_breaker_state, s, now)
                /\ HasUsableSignal(s) ) => OpenedNow(s) # {}
      ]_vars

C3_Witness ==
    /\ pc = "sell"
    /\ last.op = "exec" /\ last.strategy = "Arbitrage"
    /\ ~last.ok /\ last.n = 0
    /\ all_ops.arbitrage # <<>>
    /\ Locked(circuit_breaker_state, "Arbitrage", now)
    /\ all_ops.contrarian # <<>>
    /\ \E k \in 1..Len(trades) :
          /\ trades[k].strategy = "AI Contrarian"
          /\ IsOpen(trades[k])
          /\ trades[k].entry_time = isoformat(now)

\* C4: at the end of every run of run_trading_cycle no OPEN position is left whose
\* market price is available and above its strategy's exit threshold.
C4_ExitsAlwaysEvaluated ==
    pc = "done" => \A k \in 1..Len(trades) : ~ShouldSell(trades[k], api)

\* C5: every close with pnl >= 0 (pnl exactly 0 included) leaves the strategy's
\* record at consecutive_losses 0, circuit_broken false, broken_until none,
\* whatever the record was before.
C5_ResetOnNonLosingClose ==
    [][ \A k \in 1..Len(trades) :
           (ClosedNow(k) /\ Val(trades'[k].pnl) >= 0) =>
              /\ trades[k].strategy \in DOMAIN circuit_breaker_state'
              /\ LET after == circuit_breaker_state'[trades[k].strategy]
                 IN  /\ after.consecutive_losses = 0
                     /\ after.circuit_broken = FALSE
                     /\ after.broken_until = None
      ]_vars

C5_Witness ==
    /\ last.op = "close" /\ last.n = 0
    /\ last.before.circuit_broken
    /\ last.before.broken_until # None
    /\ circuit_breaker_state[last.strategy] = DefaultBreaker

\* C6: a breaker query on a BROKEN strategy with now > broken_until resets the
\* record (0 losses, not broken, no broken_until) and reports not broken; with
\* now <= broken_until it changes nothing and reports broken; on a strategy that
\* is not BROKEN it changes nothing and reports not broken.
C6_ExpiryOnQuery ==
    \A s \in OpStrategies \cup DOMAIN circuit_breaker_state :
        LET before == BreakerOf(circuit_breaker_state, s)
            r == check_circuit_breaker_expired(circuit_breaker_state, s, now)
            q == check_circuit_breaker(circuit_breaker_state, s, now)
        IN  /\ q.cbs = r.cbs /\ q.ret = ~r.ret
            /\ IF before.circuit_broken /\ before.broken_until # None
               THEN IF now > fromisoformat(Val(before.broken_until))
                    THEN /\ r.ret = FALSE
                         /\ r.cbs = [circuit_breaker_state EXCEPT ![s] =
                                        [consecutive_losses |-> 0,
                                         circuit_broken |-> FALSE,
                                         broken_until |-> None]]
                    ELSE /\ r.ret = TRUE
                         /\ r.cbs = circuit_breaker_state
               ELSE /\ r.ret = FALSE
                    /\ r.cbs = circuit_breaker_state

C6_Witness ==
    /\ last.op = "query" /\ last.ok
    /\ last.before.circuit_broken
    /\ now > fromisoformat(Val(last.before.broken_until))
    /\ circuit_breaker_state[last.strategy] = DefaultBreaker

\* C7: for every strategy, broken_until is set if and only if circuit_broken is
\* true.
C7_BrokenUntilIffBroken ==
    \A s \in DOMAIN circuit_breaker_state :
        (circuit_breaker_state[s].broken_until # None)
            <=> circuit_breaker_state[s].circuit_broken

C7_Witness ==
    /\ last.op = "close" /\ last.n < 0
    /\ last.before.circuit_broken
    /\ circuit_breaker_state[last.strategy].circuit_broken
    /\ circuit_breaker_state[last.strategy].broken_until = Some(isoformat(now + 24))
    /\ now > StartTime

Changed(cbs0, cbs1) ==
    {b \in DOMAIN cbs0 \cup DOMAIN cbs1 :
        b \notin DOMAIN cbs0 \/ b \notin DOMAIN cbs1 \/ cbs0[b] # cbs1[b]}

\* C8: a step that closes a position of strategy A changes the breaker record of
\* no other strategy, and a step that closes nothing (a breaker query) changes
\* the record of at most the one strategy queried; no strategy becomes BROKEN in
\* a step that closes none of its positions.
C8_BreakerIsolation ==
    [][ /\ \A k \in 1..Len(trades) :
              ClosedNow(k) =>
                 Changed(circuit_breaker_state, circuit_breaker_state')
                    \subseteq {trades[k].strategy}
        /\ (\A k \in 1..Len(trades) : ~ClosedNow(k)) =>
              /\ Cardinality(Changed(circuit_breaker_state, circuit_breaker_state')) <= 1
              /\ \A b \in DOMAIN circuit_breaker_state' :
                    circuit_breaker_state'[b].circuit_broken =>
                       BreakerOf(circuit_breaker_state, b).circuit_broken
      ]_vars

C8_Witness ==
    /\ last.op = "close"
    /\ circuit_breaker_state[last.strategy] # last.before
    /\ \E b \in DOMAIN circuit_breaker_state \ {last.strategy} :
          /\ circuit_breaker_state[b].circuit_broken
          /\ circuit_breaker_state[b].consecutive_losses = circuit_breaker_threshold

own_trades(strategy) == SelectSeq(trades, LAMBDA tr : tr.strategy = strategy)

\* C9: the stake computed for a strategy's next position is the stake the same
\* strategy gets from the history of its own positions alone.
C9_SizingIsolation ==
    \A s \in OpStrategies :
        calculate_position_size(win_rate, s)
            = calculate_position_size(calculate_win_rate(own_trades(s)), s)

\* C10: a position is created OPEN with exit_price, exit_time and pnl none; its
\* status only moves OPEN -> CLOSED, the close setting the three exit fields and
\* nothing else; a CLOSED position never changes again; no position leaves the
\* trade list.
C10_PositionLifecycle ==
    [][ /\ Len(trades') >= Len(trades)
        /\ \A k \in 1..Len(trades) :
              \/ trades'[k] = trades[k]
              \/ /\ ClosedNow(k)
                 /\ trades'[k].exit_price # None
                 /\ trades'[k].exit_time # None
                 /\ trades'[k].pnl # None
                 /\ trades'[k] = [trades[k] EXCEPT !.exit_price = trades'[k].exit_price,
                                                   !.exit_time = trades'[k].exit_time,
                                                   !.pnl = trades'[k].pnl,
                                                   !.status = "CLOSED"]
        /\ \A k \in (Len(trades) + 1)..Len(trades') :
              /\ trades'[k].status = "OPEN"
              /\ trades'[k].exit_price = None
              /\ trades'[k].exit_time = None
              /\ trades'[k].pnl = None
      ]_vars

C10_Witness ==
    /\ last.op = "close"
    /\ IsClosed(trades[last.id])
    /\ trades[last.id].exit_price = last.price
    /\ trades[last.id].exit_time = Some(isoformat(now))
    /\ \E k \in 1..Len(trades) : k < last.id /\ IsClosed(trades[k])
    /\ \E k \in 1..Len(trades) : IsOpen(trades[k]) /\ trades[k].pnl = None

\* C11: close_position with an id that no OPEN position has (an unknown id, or
\* the id of a CLOSED position) returns None and leaves the trade list, every
\* breaker record, the win rate and the alerts as they were.
C11_CloseNotFound ==
    \A trade_id \in 1..(Len(trades) + 1), exit_price \in OpExitPrices :
        (~\E k \in 1..Len(trades) :
              trades[k].id = trade_id /\ trades[k].status = "OPEN")
        => close_position(Self, trade_id, exit_price, now)
              = [eng |-> Self, ret |-> None]

C11_Witness ==
    /\ last.op = "close_none"
    /\ last.id \in 1..Len(trades)
    /\ trades[last.id].status = "CLOSED"
    /\ \E k \in 1..Len(trades) : trades[k].status = "OPEN"
    /\ \E s \in DOMAIN circuit_breaker_state :
          circuit_breaker_state[s].consecutive_losses > 0

\* C12: the pnl recorded on a CLOSED position is
\* (exit_price - entry_price) * (stake / entry_price) less a fee of 2% of the
\* stake.
C12_FeeAdjustedPnl ==
    \A k \in 1..Len(trades) :
        IsClosed(trades[k]) =>
           Val(trades[k].pnl) =
              ((Val(trades[k].exit_price) - trades[k].entry_price)
                   * trades[k].position_size) \div trades[k].entry_price
              - (trades[k].position_size * 2) \div 100

\* C13: the stake the sizer returns, and the position_size of every position,
\* lies between 5.00 and 100.00.
C13_StakeBounds ==
    /\ \A s \in OpStrategies :
          /\ calculate_position_size(win_rate, s) >= 500
          /\ calculate_position_size(win_rate, s) <= 10000
    /\ \A k \in 1..Len(trades) :
          /\ trades[k].position_size >= 500
          /\ trades[k].position_size <= 10000

C13_Witness ==
    /\ last.op = "open"
    /\ trades[last.id].position_size = 500
    /\ win_rate < (Scale * 45) \div 100
    /\ \E k \in 1..Len(trades) : trades[k].position_size > 1000

\* C15: after n calls of update_market_history for a market the retained
\* history has length min(n, 10), is the last min(n, 10) recorded prices in
\* recording order, and has as many timestamps as prices; a market never
\* recorded has no entry and reads as empty.
C15_HistoryBound ==
    \A m \in MarketSet :
        LET h == history_of(market_history, m)
            n == Len(recorded[m])
            kept == IF n <= 10 THEN n ELSE 10
        IN  /\ Len(h.prices) = kept
            /\ h.prices = SubSeq(recorded[m], n - kept + 1, n)
            /\ Len(h.timestamps) = Len(h.prices)
            /\ (n = 0) <=> (m \notin DOMAIN market_history)

C15_Witness ==
    /\ last.op = "record" /\ last.n = 12
    /\ Len(recorded["btc"]) = 12
    /\ Len(market_history["btc"].prices) = 10
    /\ recorded["btc"][2] # recorded["btc"][3]
    /\ market_history["btc"].prices[1] = recorded["btc"][3]
    /\ "eth" \notin DOMAIN market_history

\* the markets of a strategy's signals, in the order of its sorted list, and the
\* number of positions the strategy may open in one cycle
SignalMarkets(strategy) ==
    CASE strategy = "AI Contrarian" ->
            [k \in 1..Len(all_ops.contrarian) |-> all_ops.contrarian[k].market_id]
      [] strategy = "Late Entry" ->
            [k \in 1..Len(all_ops.late_entry) |-> all_ops.late_entry[k].market_id]
      [] OTHER ->
            [k \in 1..Len(all_ops.arbitrage) |-> all_ops.arbitrage[k].long]

ExecutionCap(strategy) == IF strategy = "Late Entry" THEN 2 ELSE 1

HoldsOpen(strategy, market_id) ==
    \E k \in 1..Len(trades) :
        /\ IsOpen(trades[k])
        /\ trades[k].strategy = strategy
        /\ trades[k].market_id = market_id

OpenedMarkets ==
    [k \in 1..(Len(trades') - Len(trades)) |-> trades'[Len(trades) + k].market_id]

\* C16: when a tradeable strategy's signals are executed, the positions opened
\* are those of the first min(c, m) signals, in sorted order, among the m
\* signals on markets where that same strategy holds no OPEN position.
C16_OpeningRule ==
    [][ \A s \in Strategies :
           (pc = ExecPc(s) /\ ~Locked(circuit_breaker_state, s, now)) =>
              LET eligible == SelectSeq(SignalMarkets(s),
                                        LAMBDA m : ~HoldsOpen(s, m))
                  n == IF Len(eligible) <= ExecutionCap(s) THEN Len(eligible)
                       ELSE ExecutionCap(s)
              IN  OpenedMarkets = SubSeq(eligible, 1, n)
      ]_vars

\* C17: the positions opened for a strategy in one cycle are opened in its own
\* execution block, which runs once, and are never more than its cap (1 for
\* AI Contrarian, 2 for Late Entry, 1 for Arbitrage), however long its signal
\* list is.
C17_ExecutionLimit ==
    [][ \A s \in Strategies :
           /\ Cardinality(OpenedNow(s)) <= ExecutionCap(s)
           /\ OpenedNow(s) # {} => (pc = ExecPc(s) /\ pc' # pc)
      ]_vars

C17_Witness ==
    /\ pc = "arbitrage"
    /\ last.op = "exec" /\ last.strategy = "Late Entry"
    /\ last.n = 2
    /\ Len(all_ops.late_entry) = 3
    /\ Len(all_ops.arbitrage) = 2

\* the signals of a list that the block of its strategy looks at
Considered(ops, cap) == {k \in 1..Len(ops) : k <= cap}

\* C18: the blocks run in the order AI Contrarian, Late Entry, Arbitrage; the
\* AI Contrarian list is in order of confidence, highest first, and the Late
\* Entry list in order of price, lowest first, so that no signal left out by a
\* cap ranks before one that is considered; the positions a block opens are on
\* markets of considered signals, at the signal's price and with the stake the
\* sizer gives for the engine's win rate.
C18_DeterministicOrdering ==
    [][ /\ pc = "contrarian" => pc' = "late_entry"
        /\ pc = "late_entry" => pc' = "arbitrage"
        /\ pc = "arbitrage" => pc' = "sell"
        /\ \A i, j \in 1..Len(all_ops'.contrarian) :
              i < j => all_ops'.contrarian[i].signal_strength
                          >= all_ops'.contrarian[j].signal_strength
        /\ \A i, j \in 1..Len(all_ops'.late_entry) :
              i < j => /\ all_ops'.late_entry[i].yes_price
                             <= all_ops'.late_entry[j].yes_price
                       /\ all_ops'.late_entry[i].signal_strength
                             = all_ops'.late_entry[i].yes_price
        /\ \A k \in (Len(trades) + 1)..Len(trades') :
              LET t == trades'[k]
                  ops == CASE t.strategy = "AI Contrarian" -> all_ops.contrarian
                           [] t.strategy = "Late Entry" -> all_ops.late_entry
                           [] OTHER -> <<>>
              IN  /\ pc = ExecPc(t.strategy)
                  /\ t.position_size = calculate_position_size(win_rate, t.strategy)
                  /\ t.strategy # "Arbitrage" =>
                        \E i \in Considered(ops, ExecutionCap(t.strategy)) :
                           /\ ops[i].market_id = t.market_id
                           /\ ops[i].yes_price = t.entry_price
                           /\ \A j \in 1..Len(ops) :
                                 j \notin Considered(ops, ExecutionCap(t.strategy))
                                 => IF t.strategy = "AI Contrarian"
                                    THEN ops[j].signal_strength <= ops[i].signal_strength
                                    ELSE ops[j].yes_price >= ops[i].yes_price
                  /\ t.strategy = "Arbitrage" =>
                        /\ all_ops.arbitrage # <<>>
                        /\ all_ops.arbitrage[1].long = t.market_id
      ]_vars

C18_Witness ==
    /\ pc = "arbitrage"
    /\ last.op = "exec" /\ last.strategy = "Late Entry" /\ last.n >= 1
    /\ Len(all_ops.contrarian) = 2 /\ Len(all_ops.late_entry) = 3
    /\ all_ops.contrarian[1].market_id = "eth"
    /\ all_ops.late_entry[3].market_id = "btc"
    /\ Len(trades) >= 2
    /\ trades[1].strategy = "AI Contrarian"
    /\ trades[1].market_id = all_ops.contrarian[1].market_id
    /\ trades[Len(trades)].strategy = "Late Entry"
    /\ trades[Len(trades)].market_id = all_ops.late_entry[2].market_id

\* C19: the persisted stores are written only by the step that ends the cycle;
\* a process that stops anywhere before it leaves every store as it was at the
\* start of the cycle.
C19_NoPartialCommits ==
    [][ pc' # "done" =>
          UNCHANGED <<trades, circuit_breaker_state, market_history>> ]_vars

\* the OPEN positions a process has opened itself since it loaded the file
OpenedBy(r, strategy, market_id) ==
    {k \in (runs[r].loaded + 1)..Len(runs[r].self.trades) :
        /\ runs[r].self.trades[k].strategy = strategy
        /\ runs[r].self.trades[k].market_id = market_id
        /\ IsOpen(runs[r].self.trades[k])}

\* C20: the stores are loaded whole and rewritten whole, with no lock: a
\* process that starts takes the files as they are, also while another process
\* runs, and a process that changes its trade list or its breaker records
\* leaves the file equal to its own copy, whatever the file held.  (The
\* interleaving that loses an update and opens the same position twice is
\* C20_Witness.)
C20_LastWriterWins ==
    [][ \A r \in RunIds :
          /\ (runs[r].pc = "off" /\ runs'[r].pc = "on") =>
                /\ runs'[r].self.trades = trades
                /\ runs'[r].self.circuit_breaker_state = circuit_breaker_state
                /\ UNCHANGED <<trades, circuit_breaker_state>>
          /\ (runs[r].pc = "on" /\ runs'[r].pc = "on"
                /\ runs'[r].self.trades # runs[r].self.trades) =>
                trades' = runs'[r].self.trades
          /\ (runs[r].pc = "on" /\ runs'[r].pc = "on"
                /\ runs'[r].self.circuit_breaker_state
                      # runs[r].self.circuit_breaker_state) =>
                circuit_breaker_state' = runs'[r].self.circuit_breaker_state
      ]_vars

\* Both processes run; process 1 has opened Late Entry positions on eth and on
\* btc (and saved them), process 2 has opened one on btc and written last: the
\* file holds the list of process 2, without the eth position of process 1.
C20_Witness ==
    /\ runs[1].pc = "on" /\ runs[2].pc = "on"
    /\ OpenedBy(1, "Late Entry", "eth") # {}
    /\ OpenedBy(1, "Late Entry", "btc") # {}
    /\ OpenedBy(2, "Late Entry", "btc") # {}
    /\ last.op = "run_open" /\ last.id = 2
    /\ trades = runs[2].self.trades
    /\ \A k \in 1..Len(trades) : trades[k].market_id # "eth"

\* the prices a store of histories holds, without the timestamps
PricesOf(hist) == [m \in DOMAIN hist |-> hist[m].prices]

\* the scan of this step met, for every market, the price the scan before it
\* met (and met no market for the first time)
SamePricesScanned ==
    /\ \E m \in MarketSet : recorded'[m] # recorded[m]
    /\ \A m \in MarketSet :
          \/ recorded'[m] = recorded[m]
          \/ /\ recorded[m] # <<>>
             /\ recorded'[m] = Append(recorded[m], recorded[m][Len(recorded[m])])

\* C21: a cycle that meets the prices of the cycle before it leaves the prices
\* of the market-history store as they were.
C21_Idempotence ==
    [][ (pc = "idle" /\ SamePricesScanned) =>
           PricesOf(market_history') = PricesOf(market_history) ]_vars

C23_SizerAlgorithm ==
    (\A k \in 1..Len(trades) : IsOpen(trades[k])) =>
        \A s \in OpStrategies :
            calculate_position_size(calculate_win_rate(trades), s) = (10000 * 5) \div 100

\* the trades check_sell_signals closes in this cycle, and those of them that
\* close at a loss
Selling == {k \in 1..Len(trades) : ShouldSell(trades[k], api)}
SellingAtLoss(strategy) ==
    {k \in Selling :
        /\ trades[k].strategy = strategy
        /\ Profit(trades[k], Val(get_market_price(api, trades[k].market_id))) < 0}

\* C24: when the notifier fails, check_sell_signals still closes every position
\* it has to close; a strategy all of whose closes in the cycle are losses and
\* bring its count to the threshold is BROKEN with broken_until 24 hours
\* from now, its record holding every one of these losses; no alert is sent
\* and the cycle ends.
C24_NotificationFailure ==
    [][ (pc = "sell" /\ ~notifier) =>
          /\ pc' = "done"
          /\ alerts' = alerts
          /\ \A k \in Selling :
                /\ IsClosed(trades'[k])
                /\ trades'[k].exit_price = get_market_price(api, trades[k].market_id)
          /\ \A s \in Strategies :
                LET before == BreakerOf(circuit_breaker_state, s).consecutive_losses
                    losses == Cardinality(SellingAtLoss(s))
                IN  ( /\ losses > 0
                      /\ \A k \in Selling : trades[k].strategy = s
                                               => k \in SellingAtLoss(s)
                      /\ before + losses >= circuit_breaker_threshold ) =>
                    /\ circuit_breaker_state'[s].circuit_broken
                    /\ circuit_breaker_state'[s].consecutive_losses = before + losses
                    /\ circuit_breaker_state'[s].broken_until
                          = Some(isoformat(now + lockout_hours))
      ]_vars

\* The notifier was down in a cycle whose exits closed two Arbitrage positions
\* at a loss, the first of them the third loss in a row.
C24_Witness ==
    /\ pc = "done" /\ last.op = "sell" /\ last.n = 2
    /\ ~notifier
    /\ alerts = <<>>
    /\ circuit_breaker_state["Arbitrage"].circuit_broken
    /\ circuit_breaker_state["Arbitrage"].consecutive_losses
          = circuit_breaker_threshold + 1
    /\ circuit_breaker_state["Arbitrage"].broken_until
          = Some(isoformat(now + lockout_hours))
    /\ \A k \in 1..Len(trades) : IsClosed(trades[k])

\* the price the scan of a markets file has for a market: the file's, or else
\* the API's
ScanPrice(file, answers, m) ==
    LET hits == {k \in 1..Len(file) : file[k].market_id = m}
        entry == file[CHOOSE k \in hits : TRUE]
    IN  IF hits = {} THEN None
        ELSE IF entry.yes_price # None THEN entry.yes_price
        ELSE IF m \in DOMAIN answers THEN answers[m] ELSE None

\* the markets named by the signals of the three lists
SignalledMarkets(ops) ==
    {ops.contrarian[k].market_id : k \in 1..Len(ops.contrarian)}
    \cup {ops.late_entry[k].market_id : k \in 1..Len(ops.late_entry)}
    \cup {ops.arbitrage[k].market_1 : k \in 1..Len(ops.arbitrage)}
    \cup {ops.arbitrage[k].market_2 : k \in 1..Len(ops.arbitrage)}

\* C25: a market whose price is not available gets no history entry and no
\* signal in the scan, while every 4h market with a price gets its entry; an
\* OPEN position on a market without a price is not touched by the exits,
\* while every other OPEN position whose price is above its threshold is
\* closed at that price.
C25_DataUnavailable ==
    [][ /\ (pc = "idle" /\ pc' = "contrarian") =>
              \A m \in MarketSet :
                 LET price == ScanPrice(Val(markets'), api', m)
                 IN  IF price = None
                     THEN /\ history_of(market_history', m) = history_of(market_history, m)
                          /\ recorded'[m] = recorded[m]
                          /\ m \notin SignalledMarkets(all_ops')
                     ELSE /\ recorded'[m] = Append(recorded[m], Val(price))
                          /\ history_of(market_history', m).prices
                                = Append(history_of(market_history, m).prices, Val(price))
        /\ pc = "sell" =>
              /\ pc' = "done"
              /\ Len(trades') = Len(trades)
              /\ \A k \in 1..Len(trades) :
                    IF api[trades[k].market_id] = None
                    THEN trades'[k] = trades[k]
                    ELSE ( /\ IsOpen(trades[k])
                           /\ Val(api[trades[k].market_id])
                                 > sell_threshold(trades[k].strategy) ) =>
                         /\ IsClosed(trades'[k])
                         /\ trades'[k].exit_price = api[trades[k].market_id]
      ]_vars

\* The exits have closed the position on one market and left the position on
\* the other, whose price the API did not give, OPEN; one market was skipped by
\* a scan that recorded the other.
C25_Witness ==
    /\ pc = "done" /\ last.op = "sell" /\ last.n = 1
    /\ \E j, k \in 1..Len(trades) :
          /\ IsOpen(trades[j]) /\ api[trades[j].market_id] = None
          /\ IsClosed(trades[k]) /\ api[trades[k].market_id] # None
          /\ trades[j].market_id # trades[k].market_id
    /\ Len(recorded["btc"]) # Len(recorded["eth"])

\* C26: an engine constructed with no stores has no trades, no history and a
\* record of zero losses, not broken, for each of its three strategies; a
\* breaker query for a strategy without a record answers that it may trade and
\* writes nothing; a close of a position of such a strategy creates the record,
\* counting from zero.
C26_MissingState ==
    [][ /\ last.op = "init" =>
              /\ trades = <<>>
              /\ market_history = <<>>
              /\ DOMAIN circuit_breaker_state = Strategies
              /\ \A s \in Strategies :
                    /\ circuit_breaker_state[s].consecutive_losses = 0
                    /\ ~circuit_breaker_state[s].circuit_broken
        /\ \A s \in OpStrategies \ DOMAIN circuit_breaker_state :
              /\ check_circuit_breaker(circuit_breaker_state, s, now).ret
              /\ check_circuit_breaker(circuit_breaker_state, s, now).cbs
                    = circuit_breaker_state
              /\ \A k \in 1..Len(trades) :
                    (trades[k].strategy = s /\ ClosedNow(k)) =>
                        /\ s \in DOMAIN circuit_breaker_state'
                        /\ circuit_breaker_state'[s] =
                              IF Val(trades'[k].pnl) < 0
                              THEN [DefaultBreaker EXCEPT !.consecutive_losses = 1]
                              ELSE DefaultBreaker
      ]_vars

\* The first close of a position of a strategy that had no record was a loss.
C26_Witness ==
    /\ last.op = "close" /\ last.strategy = "Other" /\ last.n < 0
    /\ Cardinality({k \in 1..Len(trades) :
                       trades[k].strategy = "Other" /\ IsClosed(trades[k])}) = 1
    /\ circuit_breaker_state["Other"]
          = [DefaultBreaker EXCEPT !.consecutive_losses = 1]

\* the positions of a strategy that this step closes
ClosedOf(strategy) ==
    {k \in 1..Len(trades) : trades[k].strategy = strategy /\ ClosedNow(k)}

\* C27: consecutive_losses counts the losing closes of the strategy since its
\* last close that was not a loss or its last reset on expiry: it starts at 0,
\* a losing close adds one, a close that is not a loss and a query after
\* broken_until set it to 0, and nothing else changes it; a record that says
\* broken holds at least 3 losses.
C27_LossCountInvariant ==
    [][ \A s \in OpStrategies \cup Strategies :
          LET before == BreakerOf(circuit_breaker_state, s)
              after == BreakerOf(circuit_breaker_state', s)
              closed == ClosedOf(s)
          IN  /\ last.op = "init" => before.consecutive_losses = 0
              /\ \A k \in closed :
                    after.consecutive_losses =
                       IF Val(trades'[k].pnl) < 0
                       THEN before.consecutive_losses + Cardinality(closed)
                       ELSE 0
              /\ closed = {} =>
                    \/ after.consecutive_losses = before.consecutive_losses
                    \/ /\ after.consecutive_losses = 0
                       /\ before.circuit_broken
                       /\ before.broken_until # None
                       /\ now > fromisoformat(Val(before.broken_until))
              /\ before.circuit_broken =>
                    before.consecutive_losses >= circuit_breaker_threshold
              /\ after.circuit_broken =>
                    after.consecutive_losses >= circuit_breaker_threshold
      ]_vars

\* A losing close after a winning one: the count is 1 although the strategy
\* has closed more than one position at a loss.
C27_Witness ==
    /\ last.op = "close" /\ last.n < 0
    /\ last.before.consecutive_losses = 0
    /\ circuit_breaker_state[last.strategy].consecutive_losses = 1
    /\ Cardinality({k \in 1..Len(trades) :
                       /\ trades[k].strategy = last.strategy
                       /\ IsClosed(trades[k])
                       /\ Val(trades[k].pnl) < 0}) >= 2

\* C28: every losing close made with consecutive_losses at threshold - 1 or
\* more, a broken strategy's included, adds one to the count, sets
\* circuit_broken and broken_until = time of the close + 24h, and sends an
\* alert with the new count.
C28_LossWhileBroken ==
    [][ \A k \in 1..Len(trades) :
          LET s == trades[k].strategy
              before == BreakerOf(circuit_breaker_state, s)
          IN  ( /\ ClosedNow(k)
                /\ Val(trades'[k].pnl) < 0
                /\ before.consecutive_losses >= circuit_breaker_threshold - 1 ) =>
              /\ circuit_breaker_state'[s].consecutive_losses
                    = before.consecutive_losses + 1
              /\ circuit_breaker_state'[s].circuit_broken
              /\ circuit_breaker_state'[s].broken_until
                    = Some(isoformat(fromisoformat(Val(trades'[k].exit_time))
                                     + lockout_hours))
              /\ notifier =>
                    alerts' = Append(alerts,
                                     [strategy |-> s,
                                      loss_count |-> before.consecutive_losses + 1])
      ]_vars

\* A strategy that was broken already has closed another position at a loss, a
\* day later: its count is above the threshold, its lockout ends later than it
\* did, and a second alert is out.
C28_Witness ==
    /\ last.op = "close" /\ last.n < 0
    /\ last.before.circuit_broken
    /\ last.before.consecutive_losses = circuit_breaker_threshold
    /\ circuit_breaker_state[last.strategy].consecutive_losses
          = circuit_breaker_threshold + 1
    /\ circuit_breaker_state[last.strategy].circuit_broken
    /\ fromisoformat(Val(circuit_breaker_state[last.strategy].broken_until))
          > fromisoformat(Val(last.before.broken_until))
    /\ Len(alerts) = 2
    /\ alerts[2] = [strategy |-> last.strategy,
                    loss_count |-> circuit_breaker_threshold + 1]

\* C29: check_sell_signals closes an OPEN position exactly when the price of
\* its market is available and above 0.70 (AI Contrarian) or 0.65 (any other
\* strategy); it closes it at that price, and leaves every other trade as it
\* was.
C29_ExitRule ==
    [][ pc = "sell" =>
          /\ Len(trades') = Len(trades)
          /\ \A k \in 1..Len(trades) :
                LET price == api[trades[k].market_id]
                    crosses == /\ price # None
                               /\ Val(price) > (IF trades[k].strategy = "AI Contrarian"
                                                THEN 70 ELSE 65)
                IN  IF IsOpen(trades[k]) /\ crosses
                    THEN /\ IsClosed(trades'[k])
                         /\ trades'[k].exit_price = price
                         /\ trades'[k].exit_time = Some(isoformat(now))
                    ELSE trades'[k] = trades[k]
      ]_vars

\* At the price 0.70 the exits have left an AI Contrarian position OPEN, on a
\* market where they closed a position of another strategy at 0.70 before.
C29_Witness ==
    /\ pc = "done" /\ last.op = "sell" /\ last.n = 0
    /\ \E j, k \in 1..Len(trades) :
          /\ trades[j].strategy = "AI Contrarian" /\ IsOpen(trades[j])
          /\ api[trades[j].market_id] = Some(70)
          /\ trades[k].market_id = trades[j].market_id
          /\ trades[k].strategy # "AI Contrarian"
          /\ IsClosed(trades[k])
          /\ trades[k].exit_price = Some(70)

\* C30: is_trading_allowed holds exactly at the hours 14, 15, 22, 23, 0 and 1;
\* a cycle started at any other hour ends at once and changes no store: no
\* history entry, no trade opened or closed, no breaker record changed, a
\* lockout that has run out included.
C30_TimingGate ==
    [][ /\ \A h \in 0..23 : is_trading_allowed(h) <=> h \in {14, 15, 22, 23, 0, 1}
        /\ is_trading_allowed(now) <=> (now % 24) \in {14, 15, 22, 23, 0, 1}
        /\ ( /\ pc = "idle" /\ pc' # "idle"
             /\ (now % 24) \notin {14, 15, 22, 23, 0, 1} ) =>
           /\ pc' = "done"
           /\ UNCHANGED <<trades, circuit_breaker_state, market_history, recorded,
                          alerts>>
      ]_vars

\* A cycle was started at 16:00, an hour after the lockout of Arbitrage ran
\* out, and has ended: the record still says broken.
C30_Witness ==
    /\ pc = "done" /\ last.op = "start" /\ ~last.ok
    /\ now % 24 = 16
    /\ circuit_breaker_state["Arbitrage"].circuit_broken
    /\ now > fromisoformat(Val(circuit_breaker_state["Arbitrage"].broken_until))

\* the closed trades of a list, and those of them closed with a gain
ClosedTrades(tr) == {k \in 1..Len(tr) : IsClosed(tr[k])}
WinningTrades(tr) == {k \in ClosedTrades(tr) : Val(tr[k].pnl) > 0}

\* the win rates a list of at most MaxTrades trades can have (each of them is
\* compared below with the win rate a step leaves)
WinRates ==
    {Scale \div 2} \cup {(k * Scale) \div n : k \in 0..MaxTrades, n \in 1..MaxTrades}

\* C31: after every close, win_rate is the share of the CLOSED trades (of all
\* strategies) with pnl > 0, in units of 1/Scale; it is 0.5 while no trade is
\* closed and always lies in [0, 1]; a close with pnl 0 resets the breaker
\* record of its strategy like a win but does not raise win_rate; the stake
\* does not decrease when win_rate grows.
C31_WinRate ==
    [][ /\ ClosedTrades(trades) = {} => win_rate = Scale \div 2
        /\ win_rate \in 0..Scale /\ win_rate' \in 0..Scale
        /\ \A k \in 1..Len(trades) : ClosedNow(k) =>
              LET closed == Cardinality(ClosedTrades(trades'))
                  wins == Cardinality(WinningTrades(trades'))
                  strategy == trades[k].strategy
              IN  /\ win_rate' * closed <= wins * Scale
                  /\ wins * Scale < (win_rate' + 1) * closed
                  /\ Val(trades'[k].pnl) = 0 =>
                        /\ circuit_breaker_state'[strategy] = DefaultBreaker
                        /\ k \notin WinningTrades(trades')
                        /\ IF ClosedTrades(trades) = {} THEN win_rate' = 0
                           ELSE win_rate' <= win_rate
                  /\ LET stake == calculate_position_size(win_rate', strategy)
                     IN  \A w \in WinRates :
                            /\ w <= win_rate' =>
                                  calculate_position_size(w, strategy) <= stake
                            /\ w >= win_rate' =>
                                  calculate_position_size(w, strategy) >= stake
      ]_vars

\* A trade has just been closed with pnl 0 after a loss of the same strategy
\* and a win of another one: the loss count is back to 0 and win_rate is 1/3.
C31_Witness ==
    /\ last.op = "close" /\ last.ok /\ last.n = 0
    /\ last.before.consecutive_losses >= 1
    /\ circuit_breaker_state[last.strategy] = DefaultBreaker
    /\ Cardinality(ClosedTrades(trades)) = 3
    /\ Cardinality(WinningTrades(trades)) = 1
    /\ win_rate = Scale \div 3

\* the markets named by the Late Entry signals
LateEntryMarkets(ops) == {ops.late_entry[k].market_id : k \in 1..Len(ops.late_entry)}

\* C32: a scan produces a Late Entry signal for a 4-hour market exactly when
\* the price is below 0.35, the history with the price just recorded has at
\* least 2 entries and the latest price is not lower than the one before it;
\* the oldest retained price plays no part.
C32_ReversalConfirmation ==
    [][ \A m \in MarketSet :
           LET prices == market_history'[m].prices
               n == Len(prices)
           IN  m \in LateEntryMarkets(all_ops') <=>
                  /\ prices[n] < late_entry_buy_threshold
                  /\ n >= 2
                  /\ prices[n - 1] <= prices[n]
      ]_vars

====
